---- MODULE Spec2Model ----
(***************************************************************************)
(* Model of src/main.rs: the MPU6050 sampling loop of `main` and the       *)
(* `alarm` / `alarm_time` / `Absolute::abs` helpers.                       *)
(*                                                                         *)
(* f32 readings are modelled as integers in units of 0.0001, so that       *)
(* 0.8 = 8000, 0.7999 = 7999, 2.5 = 25000, 22.4 = 224000.                  *)
(* A sensor read is a Result: a record [tag, v] with tag "Ok" or "Err";    *)
(* tag "None" marks a local that is not (yet) bound.                       *)
(* A panic (expect / unwrap / panic!) moves the program to pc = "halt",    *)
(* from which no step is possible.                                         *)
(***************************************************************************)
EXTENDS Integers, Sequences, FiniteSets, TLC

VARIABLES
    pc,               \* position of main (or of alarm, while it is called)
    acc_ref,          \* main.rs:77,88  Result<[f32;3]>
    temp_ref,         \* main.rs:78     Result<f32>
    reset_reference,  \* main.rs:83
    acc, gyro, temp,  \* main.rs:94-96  locals of the else branch
    delta,            \* main.rs:111,147 local `delta` (after abs() has run on it)
    buzzer,           \* level of GPIO33
    internal_led,     \* level of GPIO2
    limit,            \* parameter `limit` of alarm
    i,                \* number of completed iterations of `for _ in 0..buzzes`
    ret,              \* position alarm returns to
    log,              \* console lines (by kind) printed in the current loop iteration
    \* ---- observation variables (history only, never read by the program) ----
    alarms,           \* kinds alarm() was called with in the current loop iteration
    logAtCheck,       \* per limit: the console when its comparison was evaluated
    usedRef,          \* acc_ref as it was when line 109 unwrapped it
    lastCapture,      \* result of the get_acc() of the latest reference capture
    overwrote,        \* the latest capture replaced a different value of acc_ref
    pulses,           \* falling edges of the buzzer in the current/last alarm call
    ledPulses,        \* falling edges of the led in the current/last alarm call
    alarmDone,        \* kind of the alarm call that has just returned
    initOk,           \* outcome of mpu.init: "None", "Ok", "Err"
    anyRead,          \* some sensor read has been performed
    outChanged,       \* some output pin has been written
    evalFail,         \* a read of an Evaluation phase has returned Err
    afterEvalFail,    \* operations performed after that read
    anyFail,          \* any sensor read has returned Err
    afterAnyFail,     \* operations performed after that read
    lastPhase,        \* kind of the phase the loop entered last
    lastDelay,        \* duration in ms of the latest delay
    waited,           \* ms of delay accumulated in the current/last alarm call
    returned,         \* <<kind, pulses>> of the alarm calls that returned in this iteration
    startupTemp,      \* result of the get_temp() of main.rs:78
    loggedDelta       \* per limit: the value printed as "Delta: {}" in this iteration

prog == <<pc, acc_ref, temp_ref, reset_reference, acc, gyro, temp, delta,
          buzzer, internal_led, limit, i, ret, log>>
hist == <<alarms, logAtCheck, usedRef, lastCapture, overwrote, pulses, ledPulses,
          alarmDone, initOk, anyRead, outChanged,
          evalFail, afterEvalFail, anyFail, afterAnyFail,
          lastPhase, lastDelay, waited, returned, startupTemp, loggedDelta>>
vars == <<prog, hist>>

----------------------------------------------------------------------------
\* Constants of the program

MECHANICAL_LIMIT == 8000
TEMPERATURE_LIMIT == 25000

Limit == {"Mechanical", "Temperature"}

----------------------------------------------------------------------------
\* Sensor results

Ok(v) == [tag |-> "Ok", v |-> v]
ErrV == [tag |-> "Err", v |-> <<0, 0, 0>>]
ErrS == [tag |-> "Err", v |-> 0]
NoneV == [tag |-> "None", v |-> <<0, 0, 0>>]
NoneS == [tag |-> "None", v |-> 0]

\* Vectors the accelerometer can return, [x, y, z]: x covers deltas just
\* below, at and far above the limit in both directions, y and z vary alone.
AccVectors ==
    { <<0, 0, 98000>>, <<7999, 0, 98000>>, <<8000, 0, 98000>>,
      <<20000, 0, 98000>>, <<0, 9000, 98000>>, <<0, 0, 88000>> }

\* Vectors the gyroscope can return, one of them beyond both limits.
GyroVectors == { <<0, 0, 0>>, <<500000, 0, 0>> }

\* Temperatures: 20.0, 22.4, 22.5 and 50.0 degrees.
Temperatures == { 200000, 224000, 225000, 500000 }

get_acc == { Ok(v) : v \in AccVectors } \cup { ErrV }
get_gyro == { Ok(v) : v \in GyroVectors } \cup { ErrV }
get_temp == { Ok(t) : t \in Temperatures } \cup { ErrS }

----------------------------------------------------------------------------
\* Pure helpers

\* abs without the negation of negative operands
abs_identity(x) == x

\* main.rs:225-231: negate when the sign is negative, return the operand
abs(x) == IF x < 0 THEN x * (-1) ELSE x

\* the operand left as it was (abs taking its operand by value)
abs_operand_by_value(x) == x

\* main.rs:227-229: the operand of abs after the call (*self *= -1.0 when negative)
abs_operand(x) == IF x < 0 THEN x * (-1) ELSE x

\* main.rs:113
MechanicalStress(d) == d >= MECHANICAL_LIMIT

\* the temperature comparison made exclusive
Overheating_strict(d) == d > TEMPERATURE_LIMIT

\* main.rs:149
Overheating(d) == d >= TEMPERATURE_LIMIT

\* buzzes with the Temperature arm returning the Mechanical count
buzzes_same(l) == 3

\* main.rs:195-198
buzzes(l) == IF l = "Mechanical" THEN 3 ELSE 9

\* alarm_time with the Temperature arm using the Mechanical duration
alarm_time_same(l) == 100

\* main.rs:213-218, the duration in ms
alarm_time(l) == IF l = "Mechanical" THEN 100 ELSE 50

\* println! of one block of lines, recorded by kind
println(l, kind) == Append(l, kind)

Range(s) == { s[k] : k \in DOMAIN s }

NoLog == <<"unchecked">>

AlarmPcs == { "alarm_loop", "buzzer_high", "led_high", "alarm_time_high",
              "buzzer_low", "led_low", "alarm_time_low" }

InAlarm == pc \in AlarmPcs

----------------------------------------------------------------------------
\* History bookkeeping

Did(op) ==
    /\ afterEvalFail' = IF evalFail THEN afterEvalFail \cup {op} ELSE afterEvalFail
    /\ afterAnyFail' = IF anyFail THEN afterAnyFail \cup {op} ELSE afterAnyFail

refs == <<acc_ref, temp_ref>>
locals == <<acc, gyro, temp>>
pins == <<buzzer, internal_led>>
frame == <<limit, i, ret>>
iterObs == <<alarms, logAtCheck, usedRef>>
captureObs == <<lastCapture, overwrote>>
pulseObs == <<pulses, ledPulses, alarmDone>>
failObs == <<evalFail, afterEvalFail, anyFail, afterAnyFail>>
timeObs == <<lastPhase, lastDelay, waited>>
evalObs == <<returned, startupTemp, loggedDelta>>

----------------------------------------------------------------------------
Init ==
    /\ pc = "init"
    /\ acc_ref = NoneV
    /\ temp_ref = NoneS
    /\ reset_reference = FALSE
    /\ acc = NoneV
    /\ gyro = NoneV
    /\ temp = NoneS
    /\ delta = 0
    /\ buzzer = FALSE
    /\ internal_led = FALSE
    /\ limit = "Mechanical"
    /\ i = 0
    /\ ret = "none"
    /\ log = <<>>
    /\ alarms = <<>>
    /\ logAtCheck = [k \in Limit |-> NoLog]
    /\ usedRef = NoneV
    /\ lastCapture = NoneV
    /\ overwrote = FALSE
    /\ pulses = 0
    /\ ledPulses = 0
    /\ alarmDone = "none"
    /\ initOk = "None"
    /\ anyRead = FALSE
    /\ outChanged = FALSE
    /\ evalFail = FALSE
    /\ afterEvalFail = {}
    /\ anyFail = FALSE
    /\ afterAnyFail = {}
    /\ lastPhase = "none"
    /\ lastDelay = 0
    /\ waited = 0
    /\ returned = <<>>
    /\ startupTemp = NoneS
    /\ loggedDelta = [k \in Limit |-> <<>>]

----------------------------------------------------------------------------
\* Startup

\* mpu.init whose result is dropped instead of expect()ed
MpuInit_unchecked ==
    /\ pc = "init"
    /\ \E ok \in BOOLEAN : initOk' = IF ok THEN "Ok" ELSE "Err"
    /\ pc' = "start_acc"
    /\ UNCHANGED <<refs, reset_reference, locals, delta, pins, frame, log>>
    /\ UNCHANGED <<iterObs, captureObs, pulseObs, anyRead, outChanged, failObs>>
    /\ UNCHANGED <<timeObs, evalObs>>

\* main.rs:72-74  mpu.init(&mut delay).expect(..)
MpuInit ==
    /\ pc = "init"
    /\ \E ok \in BOOLEAN :
         /\ initOk' = IF ok THEN "Ok" ELSE "Err"
         /\ pc' = IF ok THEN "start_acc" ELSE "halt"
    /\ UNCHANGED <<refs, reset_reference, locals, delta, pins, frame, log>>
    /\ UNCHANGED <<iterObs, captureObs, pulseObs, anyRead, outChanged, failObs>>
    /\ UNCHANGED <<timeObs, evalObs>>

\* main.rs:77  let mut acc_ref = mpu.get_acc();
StartAcc ==
    /\ pc = "start_acc"
    /\ \E r \in get_acc :
         /\ acc_ref' = r
         /\ anyFail' = (anyFail \/ r.tag = "Err")
    /\ Did("read")
    /\ anyRead' = TRUE
    /\ pc' = "start_temp"
    /\ UNCHANGED <<temp_ref, reset_reference, locals, delta, pins, frame, log>>
    /\ UNCHANGED <<iterObs, captureObs, pulseObs, initOk, outChanged, evalFail>>
    /\ UNCHANGED <<timeObs, evalObs>>

\* main.rs:78-85  let temp_ref = mpu.get_temp(); reset_reference = true; println!("---")
StartTemp ==
    /\ pc = "start_temp"
    /\ \E r \in get_temp :
         /\ temp_ref' = r
         /\ startupTemp' = r
         /\ anyFail' = (anyFail \/ r.tag = "Err")
    /\ Did("read")
    /\ anyRead' = TRUE
    /\ reset_reference' = TRUE
    /\ log' = println(log, "sep")
    /\ pc' = "loop"
    /\ UNCHANGED <<acc_ref, locals, delta, pins, frame>>
    /\ UNCHANGED <<iterObs, captureObs, pulseObs, initOk, outChanged, evalFail>>
    /\ UNCHANGED <<timeObs, returned, loggedDelta>>

----------------------------------------------------------------------------
\* Reference capture, main.rs:87-91

\* a capture that reads the sensor but does not store the result in acc_ref
RefCapture_keep ==
    /\ pc = "loop"
    /\ reset_reference
    /\ \E r \in get_acc :
         /\ lastCapture' = r
         /\ overwrote' = (acc_ref # r)
         /\ anyFail' = (anyFail \/ r.tag = "Err")
    /\ Did("read")
    /\ anyRead' = TRUE
    /\ reset_reference' = FALSE
    /\ log' = <<>>
    /\ alarms' = <<>>
    /\ logAtCheck' = [k \in Limit |-> NoLog]
    /\ usedRef' = NoneV
    /\ alarmDone' = "none"
    /\ pc' = "delay100"
    /\ UNCHANGED <<refs, locals, delta, pins, frame>>
    /\ UNCHANGED <<pulses, ledPulses, initOk, outChanged, evalFail>>
    /\ lastPhase' = "ReferenceCapture"
    /\ returned' = <<>>
    /\ loggedDelta' = [k \in Limit |-> <<>>]
    /\ UNCHANGED <<lastDelay, waited, startupTemp>>

\* a capture that does not clear reset_reference
RefCapture_stuck ==
    /\ pc = "loop"
    /\ reset_reference
    /\ \E r \in get_acc :
         /\ acc_ref' = r
         /\ lastCapture' = r
         /\ overwrote' = (acc_ref # r)
         /\ anyFail' = (anyFail \/ r.tag = "Err")
    /\ Did("read")
    /\ anyRead' = TRUE
    /\ reset_reference' = TRUE
    /\ log' = <<>>
    /\ alarms' = <<>>
    /\ logAtCheck' = [k \in Limit |-> NoLog]
    /\ usedRef' = NoneV
    /\ alarmDone' = "none"
    /\ pc' = "delay100"
    /\ UNCHANGED <<temp_ref, locals, delta, pins, frame>>
    /\ UNCHANGED <<pulses, ledPulses, initOk, outChanged, evalFail>>
    /\ lastPhase' = "ReferenceCapture"
    /\ returned' = <<>>
    /\ loggedDelta' = [k \in Limit |-> <<>>]
    /\ UNCHANGED <<lastDelay, waited, startupTemp>>

\* a capture that also reads a new temperature reference
RefCapture_refresh_temp ==
    /\ pc = "loop"
    /\ reset_reference
    /\ \E r \in get_acc :
         /\ acc_ref' = r
         /\ lastCapture' = r
         /\ overwrote' = (acc_ref # r)
         /\ anyFail' = (anyFail \/ r.tag = "Err")
    /\ Did("read")
    /\ anyRead' = TRUE
    /\ reset_reference' = FALSE
    /\ log' = <<>>
    /\ alarms' = <<>>
    /\ logAtCheck' = [k \in Limit |-> NoLog]
    /\ usedRef' = NoneV
    /\ alarmDone' = "none"
    /\ pc' = "delay100"
    /\ \E t \in get_temp : temp_ref' = t
    /\ UNCHANGED <<locals, delta, pins, frame>>
    /\ UNCHANGED <<pulses, ledPulses, initOk, outChanged, evalFail>>
    /\ lastPhase' = "ReferenceCapture"
    /\ returned' = <<>>
    /\ loggedDelta' = [k \in Limit |-> <<>>]
    /\ UNCHANGED <<lastDelay, waited, startupTemp>>

\* main.rs:88-90  acc_ref = mpu.get_acc(); reset_reference = false;
RefCapture ==
    /\ pc = "loop"
    /\ reset_reference
    /\ \E r \in get_acc :
         /\ acc_ref' = r
         /\ lastCapture' = r
         /\ overwrote' = (acc_ref # r)
         /\ anyFail' = (anyFail \/ r.tag = "Err")
    /\ Did("read")
    /\ anyRead' = TRUE
    /\ reset_reference' = FALSE
    /\ log' = <<>>
    /\ alarms' = <<>>
    /\ logAtCheck' = [k \in Limit |-> NoLog]
    /\ usedRef' = NoneV
    /\ alarmDone' = "none"
    /\ pc' = "delay100"
    /\ UNCHANGED <<temp_ref, locals, delta, pins, frame>>
    /\ UNCHANGED <<pulses, ledPulses, initOk, outChanged, evalFail>>
    /\ lastPhase' = "ReferenceCapture"
    /\ returned' = <<>>
    /\ loggedDelta' = [k \in Limit |-> <<>>]
    /\ UNCHANGED <<lastDelay, waited, startupTemp>>

\* main.rs:91  delay.delay_ms(100u8)
Delay100 ==
    /\ pc = "delay100"
    /\ Did("delay")
    /\ pc' = "loop"
    /\ UNCHANGED <<refs, reset_reference, locals, delta, pins, frame, log>>
    /\ UNCHANGED <<iterObs, captureObs, pulseObs, initOk, anyRead, outChanged,
                   evalFail, anyFail>>
    /\ lastDelay' = 100
    /\ UNCHANGED <<lastPhase, waited, evalObs>>

----------------------------------------------------------------------------
\* Evaluation, main.rs:92-170

\* main.rs:94  let acc = mpu.get_acc();
ReadAcc ==
    /\ pc = "loop"
    /\ ~reset_reference
    /\ \E r \in get_acc :
         /\ acc' = r
         /\ anyFail' = (anyFail \/ r.tag = "Err")
         /\ evalFail' = (evalFail \/ r.tag = "Err")
    /\ Did("read")
    /\ anyRead' = TRUE
    /\ log' = <<>>
    /\ alarms' = <<>>
    /\ logAtCheck' = [k \in Limit |-> NoLog]
    /\ usedRef' = NoneV
    /\ alarmDone' = "none"
    /\ pc' = "read_gyro"
    /\ UNCHANGED <<refs, reset_reference, gyro, temp, delta, pins, frame>>
    /\ UNCHANGED <<captureObs, pulses, ledPulses, initOk, outChanged>>
    /\ lastPhase' = "Evaluation"
    /\ returned' = <<>>
    /\ loggedDelta' = [k \in Limit |-> <<>>]
    /\ UNCHANGED <<lastDelay, waited, startupTemp>>

\* main.rs:95  let gyro = mpu.get_gyro();
ReadGyro ==
    /\ pc = "read_gyro"
    /\ \E r \in get_gyro :
         /\ gyro' = r
         /\ anyFail' = (anyFail \/ r.tag = "Err")
         /\ evalFail' = (evalFail \/ r.tag = "Err")
    /\ Did("read")
    /\ anyRead' = TRUE
    /\ pc' = "read_temp"
    /\ UNCHANGED <<refs, reset_reference, acc, temp, delta, pins, frame, log>>
    /\ UNCHANGED <<iterObs, captureObs, pulseObs, initOk, outChanged>>
    /\ UNCHANGED <<timeObs, evalObs>>

\* main.rs:96  let temp = mpu.get_temp();
ReadTemp ==
    /\ pc = "read_temp"
    /\ \E r \in get_temp :
         /\ temp' = r
         /\ anyFail' = (anyFail \/ r.tag = "Err")
         /\ evalFail' = (evalFail \/ r.tag = "Err")
    /\ Did("read")
    /\ anyRead' = TRUE
    /\ pc' = "match_acc"
    /\ UNCHANGED <<refs, reset_reference, acc, gyro, delta, pins, frame, log>>
    /\ UNCHANGED <<iterObs, captureObs, pulseObs, initOk, outChanged>>
    /\ UNCHANGED <<timeObs, evalObs>>

\* panic!/unwrap on Err: nothing else changes
Panic ==
    /\ pc' = "halt"
    /\ UNCHANGED <<delta, frame>>
    /\ UNCHANGED <<alarms, logAtCheck, pulseObs, afterEvalFail, afterAnyFail>>
    /\ UNCHANGED <<waited, loggedDelta>>

\* the call alarm(&mut buzzer, &mut internal_led, &k, &mut delay), returning to r
Call(k, r) ==
    /\ limit' = k
    /\ i' = 0
    /\ ret' = r
    /\ pc' = "alarm_loop"
    /\ alarms' = Append(alarms, k)
    /\ pulses' = 0
    /\ ledPulses' = 0
    /\ alarmDone' = "none"
    /\ Did("alarm")
    /\ waited' = 0

\* the `if` of a threshold check was not taken
NoCall(next) ==
    /\ pc' = next
    /\ UNCHANGED <<frame, alarms, pulseObs, afterEvalFail, afterAnyFail>>
    /\ UNCHANGED <<waited, loggedDelta>>

\* main.rs:102-128  match acc { Ok(data) => .., Err(_) => panic!(..) }
MatchAcc ==
    /\ pc = "match_acc"
    /\ IF acc.tag = "Err"
         THEN Panic /\ UNCHANGED <<log, usedRef>>
         ELSE /\ usedRef' = acc_ref
              /\ IF acc_ref.tag # "Ok"
                   THEN Panic /\ log' = println(log, "acc")
                   ELSE LET d == acc.v[1] - acc_ref.v[1] IN
                        /\ delta' = abs_operand(d)
                        /\ logAtCheck' =
                             [logAtCheck EXCEPT !["Mechanical"] = println(log, "acc")]
                        /\ IF MechanicalStress(abs(d))
                             THEN /\ log' = println(println(log, "acc"), "mech")
                                  /\ loggedDelta' =
                                       [loggedDelta EXCEPT !["Mechanical"] = <<abs_operand(d)>>]
                                  /\ Call("Mechanical", "match_gyro")
                             ELSE /\ log' = println(log, "acc")
                                  /\ NoCall("match_gyro")
    /\ UNCHANGED <<refs, reset_reference, locals, pins>>
    /\ UNCHANGED <<captureObs, initOk, anyRead, outChanged, evalFail, anyFail>>
    /\ UNCHANGED <<lastPhase, lastDelay, returned, startupTemp>>

\* match gyro whose Err arm does not panic
MatchGyro_nopanic ==
    /\ pc = "match_gyro"
    /\ IF gyro.tag = "Err"
         THEN log' = log
         ELSE log' = println(log, "gyro")
    /\ NoCall("match_temp")
    /\ UNCHANGED <<delta, logAtCheck>>
    /\ UNCHANGED <<refs, reset_reference, locals, pins, usedRef>>
    /\ UNCHANGED <<captureObs, initOk, anyRead, outChanged, evalFail, anyFail>>
    /\ UNCHANGED <<lastPhase, lastDelay, returned, startupTemp>>

\* match gyro with a threshold check on the X rate that sounds the alarm
MatchGyro_alarming ==
    /\ pc = "match_gyro"
    /\ IF gyro.tag = "Err"
         THEN Panic /\ UNCHANGED log
         ELSE /\ log' = println(log, "gyro")
              /\ UNCHANGED <<delta, logAtCheck>>
              /\ IF abs(gyro.v[1]) >= MECHANICAL_LIMIT
                   THEN Call("Mechanical", "match_temp") /\ UNCHANGED loggedDelta
                   ELSE NoCall("match_temp")
    /\ UNCHANGED <<refs, reset_reference, locals, pins, usedRef>>
    /\ UNCHANGED <<captureObs, initOk, anyRead, outChanged, evalFail, anyFail>>
    /\ UNCHANGED <<lastPhase, lastDelay, returned, startupTemp>>

\* match gyro that prints nothing
MatchGyro_silent ==
    /\ pc = "match_gyro"
    /\ IF gyro.tag = "Err"
         THEN Panic /\ UNCHANGED log
         ELSE /\ log' = log
              /\ NoCall("match_temp")
              /\ UNCHANGED <<delta, logAtCheck>>
    /\ UNCHANGED <<refs, reset_reference, locals, pins, usedRef>>
    /\ UNCHANGED <<captureObs, initOk, anyRead, outChanged, evalFail, anyFail>>
    /\ UNCHANGED <<lastPhase, lastDelay, returned, startupTemp>>

\* main.rs:131-139  match gyro { Ok(data) => print, Err(_) => panic!(..) }
MatchGyro ==
    /\ pc = "match_gyro"
    /\ IF gyro.tag = "Err"
         THEN Panic /\ UNCHANGED log
         ELSE /\ log' = println(log, "gyro")
              /\ NoCall("match_temp")
              /\ UNCHANGED <<delta, logAtCheck>>
    /\ UNCHANGED <<refs, reset_reference, locals, pins, usedRef>>
    /\ UNCHANGED <<captureObs, initOk, anyRead, outChanged, evalFail, anyFail>>
    /\ UNCHANGED <<lastPhase, lastDelay, returned, startupTemp>>

\* match temp that makes the sample the new temperature reference
MatchTemp_rolling ==
    /\ pc = "match_temp"
    /\ IF temp.tag = "Err"
         THEN Panic /\ UNCHANGED <<log, temp_ref>>
         ELSE IF temp_ref.tag # "Ok"
                THEN Panic /\ log' = println(log, "temp") /\ UNCHANGED temp_ref
                ELSE LET d == temp.v - temp_ref.v IN
                     /\ delta' = abs_operand(d)
                     /\ temp_ref' = temp
                     /\ logAtCheck' =
                          [logAtCheck EXCEPT !["Temperature"] = println(log, "temp")]
                     /\ IF Overheating(abs(d))
                          THEN /\ log' = println(println(log, "temp"), "overheat")
                               /\ loggedDelta' =
                                    [loggedDelta EXCEPT !["Temperature"] = <<abs_operand(d)>>]
                               /\ Call("Temperature", "eval_end")
                          ELSE /\ log' = println(log, "temp")
                               /\ NoCall("eval_end")
    /\ UNCHANGED <<acc_ref, reset_reference, locals, pins, usedRef>>
    /\ UNCHANGED <<captureObs, initOk, anyRead, outChanged, evalFail, anyFail>>
    /\ UNCHANGED <<lastPhase, lastDelay, returned, startupTemp>>

\* match temp whose alarm is skipped when the Mechanical alarm has run
MatchTemp_elseif ==
    /\ pc = "match_temp"
    /\ IF temp.tag = "Err"
         THEN Panic /\ UNCHANGED log
         ELSE IF temp_ref.tag # "Ok"
                THEN Panic /\ log' = println(log, "temp")
                ELSE LET d == temp.v - temp_ref.v IN
                     /\ delta' = abs_operand(d)
                     /\ logAtCheck' =
                          [logAtCheck EXCEPT !["Temperature"] = println(log, "temp")]
                     /\ IF Overheating(abs(d)) /\ alarms = <<>>
                          THEN /\ log' = println(println(log, "temp"), "overheat")
                               /\ loggedDelta' =
                                    [loggedDelta EXCEPT !["Temperature"] = <<abs_operand(d)>>]
                               /\ Call("Temperature", "eval_end")
                          ELSE /\ log' = println(log, "temp")
                               /\ NoCall("eval_end")
    /\ UNCHANGED <<refs, reset_reference, locals, pins, usedRef>>
    /\ UNCHANGED <<captureObs, initOk, anyRead, outChanged, evalFail, anyFail>>
    /\ UNCHANGED <<lastPhase, lastDelay, returned, startupTemp>>

\* main.rs:142-164  match temp { Ok(data) => .., Err(_) => panic!(..) }
MatchTemp ==
    /\ pc = "match_temp"
    /\ IF temp.tag = "Err"
         THEN Panic /\ UNCHANGED log
         ELSE IF temp_ref.tag # "Ok"
                THEN Panic /\ log' = println(log, "temp")
                ELSE LET d == temp.v - temp_ref.v IN
                     /\ delta' = abs_operand(d)
                     /\ logAtCheck' =
                          [logAtCheck EXCEPT !["Temperature"] = println(log, "temp")]
                     /\ IF Overheating(abs(d))
                          THEN /\ log' = println(println(log, "temp"), "overheat")
                               /\ loggedDelta' =
                                    [loggedDelta EXCEPT !["Temperature"] = <<abs_operand(d)>>]
                               /\ Call("Temperature", "eval_end")
                          ELSE /\ log' = println(log, "temp")
                               /\ NoCall("eval_end")
    /\ UNCHANGED <<refs, reset_reference, locals, pins, usedRef>>
    /\ UNCHANGED <<captureObs, initOk, anyRead, outChanged, evalFail, anyFail>>
    /\ UNCHANGED <<lastPhase, lastDelay, returned, startupTemp>>

\* end of evaluation without reset_reference = true
EvalEnd_noreset ==
    /\ pc = "eval_end"
    /\ log' = println(log, "sep")
    /\ reset_reference' = FALSE
    /\ pc' = "delay500"
    /\ UNCHANGED <<refs, locals, delta, pins, frame>>
    /\ UNCHANGED <<iterObs, captureObs, pulseObs, initOk, anyRead, outChanged, failObs>>
    /\ UNCHANGED <<timeObs, evalObs>>

\* main.rs:166-168  println!("---"); reset_reference = true;
EvalEnd ==
    /\ pc = "eval_end"
    /\ log' = println(log, "sep")
    /\ reset_reference' = TRUE
    /\ pc' = "delay500"
    /\ UNCHANGED <<refs, locals, delta, pins, frame>>
    /\ UNCHANGED <<iterObs, captureObs, pulseObs, initOk, anyRead, outChanged, failObs>>
    /\ UNCHANGED <<timeObs, evalObs>>

\* main.rs:169-170  delay.delay_ms(500u16); the locals of the else branch end here
Delay500 ==
    /\ pc = "delay500"
    /\ Did("delay")
    /\ acc' = NoneV
    /\ gyro' = NoneV
    /\ temp' = NoneS
    /\ delta' = 0
    /\ pc' = "loop"
    /\ UNCHANGED <<refs, reset_reference, pins, frame, log>>
    /\ UNCHANGED <<iterObs, captureObs, pulseObs, initOk, anyRead, outChanged,
                   evalFail, anyFail>>
    /\ lastDelay' = 500
    /\ UNCHANGED <<lastPhase, waited, evalObs>>

----------------------------------------------------------------------------
\* alarm, main.rs:175-211

alarmFrame == <<refs, reset_reference, locals, delta, limit, ret, log>>
alarmObs == <<iterObs, captureObs, initOk, anyRead, evalFail, anyFail>>

\* main.rs:200  for _ in 0..buzzes: next iteration, or return to the caller
AlarmLoop ==
    /\ pc = "alarm_loop"
    /\ IF i < buzzes(limit)
         THEN /\ pc' = "buzzer_high"
              /\ UNCHANGED <<alarmDone, returned>>
         ELSE /\ pc' = ret
              /\ alarmDone' = limit
              /\ returned' = Append(returned, <<limit, pulses>>)
    /\ UNCHANGED <<alarmFrame, i, pins, alarmObs>>
    /\ UNCHANGED <<pulses, ledPulses, outChanged, afterEvalFail, afterAnyFail>>
    /\ UNCHANGED <<timeObs, startupTemp, loggedDelta>>

\* main.rs:201  buzzer.set_high().unwrap();
BuzzerHigh ==
    /\ pc = "buzzer_high"
    /\ buzzer' = TRUE
    /\ outChanged' = TRUE
    /\ pc' = "led_high"
    /\ UNCHANGED <<alarmFrame, i, internal_led, alarmObs>>
    /\ UNCHANGED <<pulseObs, afterEvalFail, afterAnyFail>>
    /\ UNCHANGED <<timeObs, evalObs>>

\* set_high of the led left out
LedHigh_missing ==
    /\ pc = "led_high"
    /\ pc' = "alarm_time_high"
    /\ UNCHANGED <<alarmFrame, i, pins, alarmObs>>
    /\ UNCHANGED <<pulseObs, outChanged, afterEvalFail, afterAnyFail>>
    /\ UNCHANGED <<timeObs, evalObs>>

\* main.rs:202  led.set_high().unwrap();
LedHigh ==
    /\ pc = "led_high"
    /\ internal_led' = TRUE
    /\ outChanged' = TRUE
    /\ pc' = "alarm_time_high"
    /\ UNCHANGED <<alarmFrame, i, buzzer, alarmObs>>
    /\ UNCHANGED <<pulseObs, afterEvalFail, afterAnyFail>>
    /\ UNCHANGED <<timeObs, evalObs>>

\* main.rs:204  alarm_time(limit, delay);
AlarmTimeHigh ==
    /\ pc = "alarm_time_high"
    /\ Did("delay")
    /\ pc' = "buzzer_low"
    /\ UNCHANGED <<alarmFrame, i, pins, alarmObs>>
    /\ UNCHANGED <<pulseObs, outChanged>>
    /\ waited' = waited + alarm_time(limit)
    /\ lastDelay' = alarm_time(limit)
    /\ UNCHANGED <<lastPhase, evalObs>>

\* main.rs:206  buzzer.set_low().unwrap();
BuzzerLow ==
    /\ pc = "buzzer_low"
    /\ buzzer' = FALSE
    /\ pulses' = IF buzzer THEN pulses + 1 ELSE pulses
    /\ outChanged' = TRUE
    /\ pc' = "led_low"
    /\ UNCHANGED <<alarmFrame, i, internal_led, alarmObs>>
    /\ UNCHANGED <<ledPulses, alarmDone, afterEvalFail, afterAnyFail>>
    /\ UNCHANGED <<timeObs, evalObs>>

\* set_low of the led left out
LedLow_missing ==
    /\ pc = "led_low"
    /\ internal_led' = internal_led
    /\ ledPulses' = IF internal_led THEN ledPulses + 1 ELSE ledPulses
    /\ outChanged' = TRUE
    /\ pc' = "alarm_time_low"
    /\ UNCHANGED <<alarmFrame, i, buzzer, alarmObs>>
    /\ UNCHANGED <<pulses, alarmDone, afterEvalFail, afterAnyFail>>
    /\ UNCHANGED <<timeObs, evalObs>>

\* main.rs:207  led.set_low().unwrap();
LedLow ==
    /\ pc = "led_low"
    /\ internal_led' = FALSE
    /\ ledPulses' = IF internal_led THEN ledPulses + 1 ELSE ledPulses
    /\ outChanged' = TRUE
    /\ pc' = "alarm_time_low"
    /\ UNCHANGED <<alarmFrame, i, buzzer, alarmObs>>
    /\ UNCHANGED <<pulses, alarmDone, afterEvalFail, afterAnyFail>>
    /\ UNCHANGED <<timeObs, evalObs>>

\* main.rs:209-210  alarm_time(limit, delay); end of one iteration
AlarmTimeLow ==
    /\ pc = "alarm_time_low"
    /\ Did("delay")
    /\ i' = i + 1
    /\ pc' = "alarm_loop"
    /\ UNCHANGED <<alarmFrame, pins, alarmObs>>
    /\ UNCHANGED <<pulseObs, outChanged>>
    /\ waited' = waited + alarm_time(limit)
    /\ lastDelay' = alarm_time(limit)
    /\ UNCHANGED <<lastPhase, evalObs>>

----------------------------------------------------------------------------
Next ==
    \/ MpuInit
    \/ StartAcc
    \/ StartTemp
    \/ RefCapture
    \/ Delay100
    \/ ReadAcc
    \/ ReadGyro
    \/ ReadTemp
    \/ MatchAcc
    \/ MatchGyro
    \/ MatchTemp
    \/ EvalEnd
    \/ Delay500
    \/ AlarmLoop
    \/ BuzzerHigh
    \/ LedHigh
    \/ AlarmTimeHigh
    \/ BuzzerLow
    \/ LedLow
    \/ AlarmTimeLow

Spec == Init /\ [][Next]_vars

\* The processor always executes the next statement and every delay ends:
\* a step that is possible is eventually taken.
FairSpec == Init /\ [][Next]_vars /\ WF_vars(Next)

TypeOK ==
    /\ pc \in { "init", "start_acc", "start_temp", "loop", "delay100",
                "read_gyro", "read_temp", "match_acc", "match_gyro",
                "match_temp", "eval_end", "delay500", "halt" } \cup AlarmPcs
    /\ reset_reference \in BOOLEAN
    /\ buzzer \in BOOLEAN
    /\ internal_led \in BOOLEAN
    /\ limit \in Limit
    /\ i \in 0..9

----------------------------------------------------------------------------
\* Properties

Magnitude(x) == IF x >= 0 THEN x ELSE 0 - x

EvalPcs == { "read_gyro", "read_temp", "match_acc", "match_gyro", "match_temp" }

AllReadsOk == acc.tag = "Ok" /\ gyro.tag = "Ok" /\ temp.tag = "Ok"

C2_EveryFailedReadHalts ==
    anyFail => afterAnyFail = {}

\* C3: after the acceleration check of an Evaluation phase, the alarm has been
\* called with Mechanical iff the magnitude of sample.x - reference.x is at
\* least 0.8; y and z do not occur in the condition.
C3_MechanicalIff ==
    (pc \in {"match_gyro", "match_temp", "eval_end", "delay500"} \/ InAlarm) =>
        /\ acc.tag = "Ok"
        /\ acc_ref.tag = "Ok"
        /\ ("Mechanical" \in Range(alarms)) <=>
               (Magnitude(acc.v[1] - acc_ref.v[1]) >= 8000)

C3_Witness ==
    /\ pc = "eval_end"
    /\ AllReadsOk
    /\ acc.v[1] - acc_ref.v[1] = 0 - 8000
    /\ acc.v[2] # acc_ref.v[2]
    /\ "Mechanical" \in Range(alarms)

\* C4: after the temperature check of an Evaluation phase, the alarm has been
\* called with Temperature iff the magnitude of sample - reference is at
\* least 2.5, the reference being the startup read.
C4_TemperatureIff ==
    (pc \in {"eval_end", "delay500"} \/ (InAlarm /\ ret = "eval_end")) =>
        /\ temp.tag = "Ok"
        /\ temp_ref.tag = "Ok"
        /\ ("Temperature" \in Range(alarms)) <=>
               (Magnitude(temp.v - temp_ref.v) >= 25000)

C4_Witness ==
    /\ pc = "eval_end"
    /\ AllReadsOk
    /\ temp.v - temp_ref.v = 25000
    /\ alarms = <<"Temperature">>

\* C5: the acceleration reference an Evaluation phase compares against is the
\* result of the read of the capture just before it, and acc_ref holds that
\* result unmodified from the capture until the next one.
C5_ReferenceIsLastCapture ==
    /\ usedRef.tag # "None" => usedRef = lastCapture
    /\ (pc \in EvalPcs \cup AlarmPcs \cup {"delay100", "eval_end", "delay500"}
        \/ (pc = "loop" /\ ~reset_reference)) => acc_ref = lastCapture

C5_Witness ==
    /\ pc = "eval_end"
    /\ usedRef.tag = "Ok"
    /\ overwrote

\* C6: an alarm call that has returned has produced exactly 3 high-then-low
\* pairs on both outputs for Mechanical and exactly 9 for Temperature, and
\* while it runs it never exceeds that count.
C6_ExactPulses ==
    /\ alarmDone = "Mechanical" => (pulses = 3 /\ ledPulses = 3)
    /\ alarmDone = "Temperature" => (pulses = 9 /\ ledPulses = 9)
    /\ alarmDone # "none" => ~InAlarm
    /\ InAlarm => pulses <= (IF limit = "Mechanical" THEN 3 ELSE 9)

C6_Witness ==
    /\ alarmDone = "Temperature"
    /\ pc = "eval_end"
    /\ temp.v - temp_ref.v = 300000
    /\ pulses = 9

\* C7: the step that handles the angular-rate reading calls no alarm and
\* changes no output, whatever the values read.
C7_GyroNeverAlarms ==
    [][pc = "match_gyro" =>
          /\ alarms' = alarms
          /\ buzzer' = buzzer
          /\ internal_led' = internal_led
          /\ pc' \in {"match_temp", "halt"}]_vars

C7_Witness ==
    /\ pc = "match_temp"
    /\ gyro.tag = "Ok"
    /\ gyro.v[1] >= 25000
    /\ alarms = <<>>

\* C8 (as stated): in an Evaluation phase whose reads succeed all three
\* readings are on the console when a threshold check is evaluated, and a
\* ReferenceCapture phase logs the acceleration reading.
C8_AllLoggedBeforeAnyCheck ==
    /\ \A k \in Limit :
         (AllReadsOk /\ logAtCheck[k] # NoLog) =>
             {"acc", "gyro", "temp"} \subseteq Range(logAtCheck[k])
    /\ (pc = "delay100" /\ acc_ref.tag = "Ok") => "acc" \in Range(log)

\* C8 (amended): each reading is logged before the check of its own channel:
\* only the acceleration reading precedes the Mechanical check, the angular
\* rate and temperature readings are logged after the Mechanical check and
\* alarm and before the Temperature check; a ReferenceCapture logs nothing.
C8_LoggedBeforeOwnCheck ==
    /\ logAtCheck["Mechanical"] # NoLog => logAtCheck["Mechanical"] = <<"acc">>
    /\ logAtCheck["Temperature"] # NoLog =>
           logAtCheck["Temperature"] \in
               { <<"acc", "gyro", "temp">>, <<"acc", "mech", "gyro", "temp">> }
    /\ pc = "delay100" => log = <<>>

C8_Witness ==
    /\ pc = "eval_end"
    /\ AllReadsOk
    /\ logAtCheck["Temperature"] = <<"acc", "mech", "gyro", "temp">>

\* C9 (as stated): in every reachable state the two outputs have the same level.
C9_SameLevelAlways == buzzer = internal_led

\* C9 (amended): the two outputs have the same level except between the write
\* of the buzzer and the write of the led that follows it; in particular they
\* agree during every delay and outside the alarm routine.
C9_SameLevelBetweenWrites ==
    pc \notin {"led_high", "led_low"} => buzzer = internal_led

C9_Witness ==
    /\ pc = "alarm_time_high"
    /\ buzzer
    /\ internal_led

\* C10: when mpu.init fails the program is halted, and no sensor read, loop
\* iteration, output write or alarm has occurred.
C10_InitFailureHalts ==
    initOk = "Err" =>
        /\ pc = "halt"
        /\ ~anyRead
        /\ ~outChanged
        /\ ~buzzer /\ ~internal_led
        /\ alarms = <<>>
        /\ acc_ref = NoneV /\ temp_ref = NoneS
        /\ reset_reference = FALSE
        /\ log = <<>>

C10_Witness ==
    /\ initOk = "Err"
    /\ pc = "halt"

\* C11: the loop starts with a ReferenceCapture and alternates: a capture is
\* entered only first or after an Evaluation and its 500 ms delay, an
\* Evaluation only after a capture and its 100 ms delay, and the capture hands
\* over to the Evaluation whatever the outcome of its read.
C11_StrictAlternation ==
    [][/\ (pc = "start_temp") => (pc' = "loop" /\ reset_reference')
       /\ (pc = "loop" /\ pc' = "delay100") =>
              /\ lastPhase \in {"none", "Evaluation"}
              /\ lastPhase = "Evaluation" => lastDelay = 500
       /\ (pc = "loop" /\ pc' = "read_gyro") =>
              /\ lastPhase = "ReferenceCapture"
              /\ lastDelay = 100
       /\ pc = "loop" => pc' \in {"delay100", "read_gyro"}
       /\ pc = "delay100" => (pc' = "loop" /\ ~reset_reference')
       /\ pc = "delay500" => (pc' = "loop" /\ reset_reference')]_vars

C11_Witness ==
    /\ pc = "read_gyro"
    /\ lastPhase = "Evaluation"
    /\ acc_ref.tag = "Err"
    /\ lastDelay = 100
    /\ outChanged

\* C12: the steps of a ReferenceCapture phase (the read and the 100 ms delay)
\* change neither output nor the temperature reference nor any evaluation
\* local, and call no alarm.
C12_CaptureFrame ==
    [][((pc = "loop" /\ reset_reference) \/ pc = "delay100") =>
          /\ buzzer' = buzzer
          /\ internal_led' = internal_led
          /\ temp_ref' = temp_ref
          /\ alarms' = <<>>
          /\ pc' \in {"delay100", "loop"}
          /\ UNCHANGED <<acc, gyro, temp, delta, limit, i, ret>>]_vars

C12_Witness ==
    /\ pc = "delay100"
    /\ overwrote
    /\ temp_ref.tag = "Ok"
    /\ ~reset_reference

\* C13: once the startup reads are done temp_ref equals the result of the
\* startup temperature read; only the startup step ever changes it, while
\* every capture step overwrites acc_ref with what it has just read.
C13_TempRefIsStartupRead ==
    /\ [](pc \notin {"init", "start_acc", "start_temp"} /\ initOk = "Ok" =>
             (temp_ref = startupTemp /\ startupTemp.tag # "None"))
    /\ [][temp_ref' # temp_ref => pc = "start_temp"]_vars
    /\ [][(pc = "loop" /\ reset_reference) => acc_ref' = lastCapture']_vars

C13_Witness ==
    /\ pc = "delay500"
    /\ temp.tag = "Ok"
    /\ temp.v # temp_ref.v
    /\ temp_ref = startupTemp
    /\ overwrote

\* C14: in one Evaluation the alarm is called at most once per kind, in the
\* order Mechanical, Temperature; at the end of the phase the calls are
\* exactly those whose threshold is met, each has returned after its full
\* pulse count, and the Mechanical call has returned before the Temperature
\* comparison is evaluated.
C14_OncePerKindInOrder ==
    /\ alarms \in { <<>>, <<"Mechanical">>, <<"Temperature">>,
                    <<"Mechanical", "Temperature">> }
    /\ pc \in {"eval_end", "delay500"} =>
         /\ alarms =
              (IF Magnitude(acc.v[1] - acc_ref.v[1]) >= 8000
                 THEN <<"Mechanical">> ELSE <<>>)
              \o (IF Magnitude(temp.v - temp_ref.v) >= 25000
                    THEN <<"Temperature">> ELSE <<>>)
         /\ Len(returned) = Len(alarms)
         /\ \A k \in DOMAIN returned :
              returned[k] = <<alarms[k], IF alarms[k] = "Mechanical" THEN 3 ELSE 9>>
    /\ (logAtCheck["Temperature"] # NoLog /\ "Mechanical" \in Range(alarms)) =>
         (Len(returned) >= 1 /\ returned[1] = <<"Mechanical", 3>>)

C14_Witness ==
    /\ pc = "eval_end"
    /\ alarms = <<"Mechanical", "Temperature">>
    /\ returned = << <<"Mechanical", 3>>, <<"Temperature", 9>> >>

\* C15: inside an alarm every delay lasts 100 ms (Mechanical) or 50 ms
\* (Temperature); a returned Mechanical call has waited 600 ms in total and a
\* Temperature call 900 ms; the 500 ms delay is reached only when every alarm
\* of the Evaluation has returned.
C15_PulseTiming ==
    LET d == IF limit = "Mechanical" THEN 100 ELSE 50 IN
    /\ (pc = "buzzer_low" \/ (pc = "alarm_loop" /\ i > 0)) => lastDelay = d
    /\ InAlarm =>
         waited = i * 2 * d
                  + (IF pc \in {"buzzer_low", "led_low", "alarm_time_low"} THEN d ELSE 0)
    /\ alarmDone = "Mechanical" => waited = 600
    /\ alarmDone = "Temperature" => waited = 900
    /\ pc = "delay500" => (Len(returned) = Len(alarms) /\ lastDelay # 500)

C15_Witness ==
    /\ pc = "delay500"
    /\ alarmDone = "Temperature"
    /\ waited = 900
    /\ Len(alarms) = 2

\* C16: in a fair run in which initialization succeeds and no sensor read
\* ever fails, the program never halts, every alarm call that has started
\* returns, and captures and evaluations are entered again and again.
C16_NeverHaltsWithoutFailure ==
    [](~anyFail /\ initOk # "Err") =>
        /\ [](pc # "halt")
        /\ [](InAlarm => <>(~InAlarm))
        /\ []<>(pc = "read_gyro")
        /\ []<>(pc = "delay100")

C16_Witness ==
    /\ ~anyFail
    /\ initOk = "Ok"
    /\ pc = "read_gyro"
    /\ outChanged
    /\ overwrote

\* C17: outside the alarm routine both outputs are low, in particular in
\* every halted state.
C17_OutputsLowOutsideAlarm ==
    ~InAlarm => (~buzzer /\ ~internal_led)

C17_Witness ==
    /\ pc = "halt"
    /\ anyFail
    /\ outChanged
    /\ ~buzzer
    /\ ~internal_led

\* C18: the value printed as Delta when an alarm fires is the magnitude of
\* sample - reference, at least the limit and never negative; the variable
\* abs has run on is non-negative and abs leaves it unchanged.
C18_LoggedDeltaIsMagnitude ==
    /\ (pc # "loop" /\ loggedDelta["Mechanical"] # <<>>) =>
         /\ loggedDelta["Mechanical"][1] = Magnitude(acc.v[1] - acc_ref.v[1])
         /\ loggedDelta["Mechanical"][1] >= 8000
    /\ (pc # "loop" /\ loggedDelta["Temperature"] # <<>>) =>
         /\ loggedDelta["Temperature"][1] = Magnitude(temp.v - temp_ref.v)
         /\ loggedDelta["Temperature"][1] >= 25000
    /\ delta >= 0
    /\ abs_operand(delta) = delta
    /\ abs(delta) = delta

C18_Witness ==
    /\ pc = "match_gyro"
    /\ acc.v[1] - acc_ref.v[1] = 0 - 8000
    /\ loggedDelta["Mechanical"] = <<8000>>
    /\ delta = 8000

====
